---------------------------- MODULE Spec2Model ----------------------------
(***************************************************************************)
(* overpassify: a compiler from a subset of Python to OverpassQL.          *)
(*                                                                         *)
(* The model follows src/overpassify/transform.py (the desugaring pass)    *)
(* and src/overpassify/overpassify.py (the entry facade and the emitter);  *)
(* the sets a lowered program computes with follow                         *)
(* src/overpassify/model.py.                                               *)
(* An AST node is a record with a `kind` field and the fields of the       *)
(* Python node; a statement list is a sequence of nodes; emitted text is a *)
(* string.  In-place mutation of a node followed by appending it to the    *)
(* output list is modelled by appending the updated record.                *)
(***************************************************************************)
EXTENDS Integers, Sequences, FiniteSets, TLC

VARIABLES
    input,      \* the statement list handed to overpassify (a function body)
    rand,       \* the values random.randint returns, in the order drawn
    pc,         \* "start": parse(list) entered; "transform": in the while loop
                \* of transform; "returned": transform returned; "aborted": a
                \* rewrite step of transform raised; "emitted": parse(list)
                \* returned text; "raised": parse(list) raised outside transform
    options,    \* the header text parse(list) built from Settings(...)
    body,       \* transform's local `body`: the list the next pass rewrites
    k,          \* number of randint calls made so far
    passes,     \* number of iterations of transform's while loop so far
    run,        \* 1: the transform call of parse(list); 2: transform called
                \* again on the list the first call returned
    first,      \* the first transform call's result: [body, k], the list it
                \* returned and the randint count at its return
    result      \* what parse(list) returned or raised: [err, val]

vars == <<input, rand, pc, options, body, k, passes, run, first, result>>

-----------------------------------------------------------------------------
(* Bounds of the model.                                                    *)

MaxSize == 4        \* statements in an input of the control-flow family
MaxCallDepth == 3   \* nesting of one-argument calls in an input expression
MaxBinOps == 2      \* arithmetic operators in an input expression
MaxKeywords == 2    \* keywords of a locator call in an input
MaxDraws == 2       \* randint calls whose value is chosen freely
MaxNonce == 1       \* randint returns a value in 0..MaxNonce
MaxPasses == 12     \* iterations of the while loop of transform

-----------------------------------------------------------------------------
(* AST nodes (the _ast classes the code dispatches on).                    *)

Name(id) == [kind |-> "Name", id |-> id]
Num(n) == [kind |-> "Num", n |-> n]
Str(s) == [kind |-> "Str", s |-> s]
Ellipsis == [kind |-> "Ellipsis"]
NameConstant(value) == [kind |-> "NameConstant", value |-> value]
Attribute(value, attr) == [kind |-> "Attribute", value |-> value, attr |-> attr]
BinOp(left, op, right) == [kind |-> "BinOp", left |-> left, op |-> op, right |-> right]
UnaryOp(op, operand) == [kind |-> "UnaryOp", op |-> op, operand |-> operand]
Compare(left, op, right) == [kind |-> "Compare", left |-> left, ops |-> <<op>>, comparators |-> <<right>>]
IfExp(test, then, orelse) == [kind |-> "IfExp", test |-> test, body |-> then, orelse |-> orelse]
keyword(arg, value) == [kind |-> "keyword", arg |-> arg, value |-> value]
Call(func, args, keywords) == [kind |-> "Call", func |-> func, args |-> args, keywords |-> keywords]

Assign(target, value) == [kind |-> "Assign", targets |-> <<target>>, value |-> value]
Expr(value) == [kind |-> "Expr", value |-> value]
If(test, then, orelse) == [kind |-> "If", test |-> test, body |-> then, orelse |-> orelse]
For(target, iter, loop, orelse) == [kind |-> "For", target |-> target, iter |-> iter, body |-> loop, orelse |-> orelse]
Break == [kind |-> "Break"]
Continue == [kind |-> "Continue"]

TMP_PREFIX == "tmp"
DummyRelation == 2186646

\* ast.parse('X = Relation(2186646)').body[0]
AssignRelation(id) == Assign(Name(id), Call(Name("Relation"), <<Num(DummyRelation)>>, <<>>))
\* ast.parse('X = Way.filter(Y)').body[0]
AssignFilter(id, of) == Assign(Name(id), Call(Attribute(Name("Way"), "filter"), <<Name(of)>>, <<>>))
\* ast.parse('for T in X: a()').body[0]
ForOver(target, id) == For(Name(target), Name(id), <<Expr(Call(Name("a"), <<>>, <<>>))>>, <<>>)

\* the value of the n-th randint(0, 2**32) call of the compilation
randint(n) == IF n <= MaxDraws THEN rand[n] ELSE MaxNonce + n

-----------------------------------------------------------------------------
(* scan (transform.py 140-156): shallow, descending only into If.          *)

RECURSIVE scan_list(_, _), scan(_, _)

scan_If(item, item_class) ==
    scan_list(item.body, item_class) \/ scan_list(item.orelse, item_class)

scan(item, item_class) ==
    IF item.kind = "If" THEN scan_If(item, item_class) ELSE FALSE

scan_list(stmts, item_class) ==
    \E i \in 1..Len(stmts) :
        stmts[i].kind = item_class \/ scan(stmts[i], item_class)

-----------------------------------------------------------------------------
(* transform_break, transform_continue (transform.py 159-202).             *)
(* Both return [body, k, err]: the returned list, the randint count, and   *)
(* the exception raised ("" when none).                                    *)

RECURSIVE transform_break(_, _, _), transform_continue(_, _, _)

\* new_body = [assignment] followed by the wrapped statements
continue_body_unflagged(assignment, wrapped) == wrapped
continue_body(assignment, wrapped) == <<assignment>> \o wrapped

transform_break(item, name, n) ==
    LET n1 == IF name = "" THEN n + 1 ELSE n
        nm == IF name = "" THEN "tmpbreak" \o ToString(randint(n1)) ELSE name
        assignment == AssignRelation(nm)
        condition == ForOver("_", nm)
        wrap(statement) ==
            LET st == IF statement.kind = "If"
                        THEN transform_break(statement, nm, n1).body[2]
                      ELSE IF statement.kind = "Break"
                        THEN AssignFilter(nm, nm)
                      ELSE statement
            IN  [condition EXCEPT !.body = <<st>>]
        new_body == [i \in 1..Len(item.body) |-> wrap(item.body[i])]
        item1 == [item EXCEPT !.body = new_body]
        didbreak == [ForOver("_", nm) EXCEPT !.body = <<AssignFilter(nm \o "else", nm)>>]
        orelse_loop == [ForOver("_", nm \o "else") EXCEPT !.body = item.orelse]
    IN  IF Len(item.orelse) > 0
          THEN [body |-> <<assignment, [item1 EXCEPT !.orelse = <<>>],
                           AssignRelation(nm \o "else"), didbreak, orelse_loop>>,
                k |-> n1, err |-> ""]
          ELSE [body |-> <<assignment, item1>>, k |-> n1, err |-> ""]

transform_continue(item, name, n) ==
    LET n1 == IF name = "" THEN n + 1 ELSE n
        nm == IF name = "" THEN "tmpcontinue" \o ToString(randint(n1)) ELSE name
        assignment == AssignRelation(nm)
        condition == ForOver("_", nm)
        \* transform_continue(statement, name=name)[1] on a one-element list
        sub(statement) == transform_continue(statement, nm, n1)
        raises(statement) ==
            statement.kind = "If" /\ (sub(statement).err # "" \/ Len(sub(statement).body) < 2)
        wrap(statement) ==
            LET st == IF statement.kind = "If"
                        THEN sub(statement).body[2]
                      ELSE IF statement.kind = "Continue"
                        THEN AssignFilter(nm, nm)
                      ELSE statement
            IN  [condition EXCEPT !.body = <<st>>]
        new_body == continue_body(assignment, [i \in 1..Len(item.body) |-> wrap(item.body[i])])
    IN  IF \E i \in 1..Len(item.body) : raises(item.body[i])
          THEN [body |-> <<>>, k |-> n1, err |-> "IndexError"]
          ELSE [body |-> <<[item EXCEPT !.body = new_body]>>, k |-> n1, err |-> ""]

-----------------------------------------------------------------------------
(* _transform (transform.py 42-137).  Every handler returns                *)
(* [add, changed, k, err]: the statements it appended to its `body`        *)
(* argument, its return value, the randint count and the exception raised. *)

R(add, changed, n, err) == [add |-> add, changed |-> changed, k |-> n, err |-> err]

RECURSIVE _transform(_, _, _), transform_list(_, _), transform_Call(_, _, _)

\* the generic handler: a node of any other class
transform_default(item, top, n) ==
    IF top THEN R(<<item>>, FALSE, n, "") ELSE R(<<>>, FALSE, n, "")

\* the iterator of a For is hoisted into an assignment of a fresh tmpfor name
hoist_iter_kept(item, n) ==
    R(<<Assign(Name("tmpfor" \o ToString(randint(n + 1))), item.iter), item>>, TRUE, n + 1, "")
hoist_iter(item, n) ==
    LET syntax == Assign(Name("tmpfor" \o ToString(randint(n + 1))), item.iter)
    IN  R(<<syntax, [item EXCEPT !.iter = syntax.targets[1]]>>, TRUE, n + 1, "")

transform_For(item, top, n) ==
    IF scan_list(item.body, "Break")
      THEN LET b == transform_break(item, "", n)
           IN  R(b.body, TRUE, b.k, b.err)
    ELSE IF scan_list(item.body, "Continue")
      THEN LET c == transform_continue(item, "", n)
           IN  R(c.body, TRUE, c.k, c.err)
    ELSE LET inner == transform_list(item.body, n)
         IN  IF inner.err # "" THEN inner
             ELSE IF inner.changed
               THEN R(<<[item EXCEPT !.body = inner.add]>>, TRUE, inner.k, "")
             ELSE IF item.iter.kind # "Name"
               THEN hoist_iter(item, n)
             ELSE IF top THEN R(<<item>>, FALSE, n, "")
             ELSE R(<<>>, FALSE, n, "")

\* the IfExp assigned to the flag of the else branch:
\* test2 of '{tmpname} = {tmpname}r if not (test) else Set()' after
\* test2.value.test = item.test
orelse_test(item, if_id) ==
    Assign(Name(if_id), IfExp(item.test, Name(if_id \o "r"), Call(Name("Set"), <<>>, <<>>)))

\* 'tmpif{}'.format(randint(0, 2**32))
if_id_unprefixed(nonce) == "if" \o ToString(nonce)
if_id_of(nonce) == "tmpif" \o ToString(nonce)

transform_If(item, top, n) ==
    LET if_id == if_id_of(randint(n + 1))
        init == AssignRelation(if_id \o "r")
        test == Assign(Name(if_id), IfExp(item.test, Name(if_id \o "r"), Call(Name("Set"), <<>>, <<>>)))
        loop == [ForOver("tmp_", if_id) EXCEPT !.body = item.body]
        test2 == orelse_test(item, if_id)
        loop2 == [ForOver("tmp_", if_id) EXCEPT !.body = item.orelse]
    IN  IF Len(item.orelse) > 0
          THEN R(<<init, test, loop, test2, loop2>>, TRUE, n + 1, "")
          ELSE R(<<init, test, loop>>, TRUE, n + 1, "")

transform_Expr(item, top, n) ==
    LET v == _transform(item.value, top, n)
    IN  IF v.err # "" THEN v
        ELSE IF v.changed THEN R(v.add, TRUE, v.k, "")
        ELSE R(<<item>>, FALSE, n, "")

transform_Assign(item, top, n) ==
    LET v == _transform(item.value, top, n)
        new_body == v.add
    IN  IF v.err # "" THEN v
        ELSE IF v.changed
          THEN R(SubSeq(new_body, 1, Len(new_body) - 1)
                    \o <<[item EXCEPT !.value = new_body[Len(new_body)]]>>,
                 TRUE, v.k, "")
        ELSE R(<<item>>, FALSE, n, "")

\* not isinstance(item.args[0], (_ast.Name, _ast.Num))
needs_hoist_calls_only(arg) == arg.kind = "Call"
needs_hoist(arg) == arg.kind \notin {"Name", "Num"}

transform_Call(item, top, n) ==
    IF top /\ Len(item.args) # 0
      THEN LET arg0 == item.args[1]
               \* _transform(item.args[0], body=body, top=top), result ignored
               sub == IF arg0.kind = "Call" THEN transform_Call(arg0, top, n)
                      ELSE R(<<>>, FALSE, n, "")
               \* item.args[0] after the call above mutated it in place
               arg1 == IF sub.changed THEN sub.add[Len(sub.add)] ELSE arg0
               syntax == Assign(Name("tmpcall" \o ToString(randint(sub.k + 1))), arg1)
           IN  IF needs_hoist(arg1)
                 THEN R(sub.add \o <<syntax, [item EXCEPT !.args[1] = syntax.targets[1]]>>,
                        TRUE, sub.k + 1, "")
                 ELSE R(sub.add, FALSE, sub.k, "")
      ELSE R(<<>>, FALSE, n, "")

_transform(item, top, n) ==
    CASE item.kind = "For" -> transform_For(item, top, n)
      [] item.kind = "If" -> transform_If(item, top, n)
      [] item.kind = "Expr" -> transform_Expr(item, top, n)
      [] item.kind = "Assign" -> transform_Assign(item, top, n)
      [] item.kind = "Call" -> transform_Call(item, top, n)
      [] OTHER -> transform_default(item, top, n)

transform_list(item, n) ==
    IF item = <<>> THEN R(<<>>, FALSE, n, "")
    ELSE LET h == _transform(Head(item), TRUE, n)
         IN  IF h.err # "" THEN h
             ELSE LET t == transform_list(Tail(item), h.k)
                  IN  R(h.add \o t.add, h.changed \/ t.changed, t.k, t.err)

-----------------------------------------------------------------------------
(* Python str operations used by the emitter.                              *)

Digits == {"0", "1", "2", "3", "4", "5", "6", "7", "8", "9"}
Upper == <<"A", "B", "C", "D", "E", "F", "G", "H", "I", "J", "K", "L", "M",
           "N", "O", "P", "Q", "R", "S", "T", "U", "V", "W", "X", "Y", "Z">>
LowerOf == <<"a", "b", "c", "d", "e", "f", "g", "h", "i", "j", "k", "l", "m",
             "n", "o", "p", "q", "r", "s", "t", "u", "v", "w", "x", "y", "z">>

At(s, i) == SubSeq(s, i, i)
From(s, i) == SubSeq(s, i, Len(s))                 \* s[i-1:]
startswith(s, p) == Len(s) >= Len(p) /\ SubSeq(s, 1, Len(p)) = p
endswith(s, p) == Len(s) >= Len(p) /\ SubSeq(s, Len(s) - Len(p) + 1, Len(s)) = p
contains(s, c) == \E i \in 1..Len(s) : At(s, i) = c
isnumeric(s) == Len(s) > 0 /\ \A i \in 1..Len(s) : At(s, i) \in Digits

RECURSIVE lower(_), replace(_, _, _), join(_, _)

lower(s) ==
    IF s = "" THEN ""
    ELSE LET c == At(s, 1)
             up == {i \in 1..26 : Upper[i] = c}
         IN  (IF up = {} THEN c ELSE LowerOf[CHOOSE i \in up : TRUE]) \o lower(From(s, 2))

replace(s, old, new) ==
    IF s = "" THEN ""
    ELSE IF startswith(s, old) THEN new \o replace(From(s, Len(old) + 1), old, new)
    ELSE At(s, 1) \o replace(From(s, 2), old, new)

\* name.split('.')[0]
before_dot(s) ==
    IF contains(s, ".")
      THEN SubSeq(s, 1, (CHOOSE i \in 1..Len(s) :
                            At(s, i) = "." /\ \A j \in 1..(i - 1) : At(s, j) # ".") - 1)
      ELSE s

join(sep, strs) ==
    IF strs = <<>> THEN ""
    ELSE IF Len(strs) = 1 THEN strs[1]
    ELSE strs[1] \o sep \o join(sep, Tail(strs))

\* float(s) succeeds: [sign] digits [. digits] [e [sign] digits], inf, nan,
\* with surrounding blanks ignored and single underscores between digits
RECURSIVE float_scan(_, _, _), strip(_)

strip(s) ==
    IF s # "" /\ At(s, 1) \in {" ", "\n"} THEN strip(From(s, 2))
    ELSE IF s # "" /\ At(s, Len(s)) \in {" ", "\n"} THEN strip(SubSeq(s, 1, Len(s) - 1))
    ELSE s

float_scan(s, i, st) ==
    IF i > Len(s) THEN st \in {"int", "frac", "expint"}
    ELSE LET c == At(s, i)
             d == c \in Digits
             nxt == CASE st = "start" /\ c \in {"+", "-"} -> "sign"
                      [] st \in {"start", "sign"} /\ d -> "int"
                      [] st \in {"start", "sign"} /\ c = "." -> "dot"
                      [] st \in {"int", "int_"} /\ d -> "int"
                      [] st = "int" /\ c = "_" -> "int_"
                      [] st = "int" /\ c = "." -> "frac"
                      [] st \in {"dot", "frac", "frac_"} /\ d -> "frac"
                      [] st = "frac" /\ c = "_" /\ i > 1 /\ At(s, i - 1) \in Digits -> "frac_"
                      [] st \in {"int", "frac"} /\ c \in {"e", "E"} -> "exp"
                      [] st = "exp" /\ c \in {"+", "-"} -> "expsign"
                      [] st \in {"exp", "expsign", "expint", "expint_"} /\ d -> "expint"
                      [] st = "expint" /\ c = "_" -> "expint_"
                      [] OTHER -> "bad"
         IN  IF nxt = "bad" THEN FALSE ELSE float_scan(s, i + 1, nxt)

float_ok(s) ==
    LET t == strip(s)
        u == IF t # "" /\ At(t, 1) \in {"+", "-"} THEN From(t, 2) ELSE t
    IN  float_scan(t, 1, "start") \/ lower(u) \in {"inf", "infinity", "nan"}

-----------------------------------------------------------------------------
(* The emitter: parse (overpassify/overpassify.py 107-526).  A handler     *)
(* returns [err, ty, s]: the exception raised ("" when none), the Python   *)
(* type of the value returned, and the value as str.format renders it.     *)

ok(str) == [err |-> "", ty |-> "str", s |-> str]
raise(exc) == [err |-> exc, ty |-> "exc", s |-> ""]
None == [err |-> "", ty |-> "None", s |-> "None"]
Indent == "\n        "

\* the first exception among results evaluated in order, if any
failed(rs) == \E i \in 1..Len(rs) : rs[i].err # ""
first_failed(rs) == rs[CHOOSE i \in 1..Len(rs) : rs[i].err # "" /\ \A j \in 1..(i - 1) : rs[j].err = ""]

\* float(x): "ok", "ValueError" or "TypeError"
float(v) ==
    IF v.ty = "str" THEN (IF float_ok(v.s) THEN "ok" ELSE "ValueError")
    ELSE IF v.ty = "bool" THEN "ok"
    ELSE "TypeError"

\* parse_tags(key, value) (436-446)
parse_tags(key, value) ==
    IF value.ty = "None" THEN ok("[!\"" \o key \o "\"]")
    ELSE IF value.ty = "Ellipsis" THEN ok("[\"" \o key \o "\"]")
    ELSE IF value.ty # "str" THEN raise("AttributeError")
    ELSE IF startswith(value.s, "Regex(")
      THEN ok("[\"" \o key \o "\"~" \o SubSeq(value.s, 7, Len(value.s) - 1) \o "]")
    ELSE IF startswith(value.s, "NotRegex(")
      THEN ok("[\"" \o key \o "\"!~" \o SubSeq(value.s, 10, Len(value.s) - 1) \o "]")
    ELSE ok("[\"" \o key \o "\"=\"" \o value.s \o "\"]")

RECURSIVE parse(_), parse_IfExp(_, _), parse_all(_)

\* [parse(x) for x in nodes]
parse_all(nodes) == [i \in 1..Len(nodes) |-> parse(nodes[i])]

\* ''.join / '\n'.join over parse results: the first exception, a TypeError
\* on a value that is not a str, else the joined text
join_parsed(sep, rs) ==
    LET bad == {i \in 1..Len(rs) : rs[i].err # "" \/ rs[i].ty # "str"}
        i0 == CHOOSE i \in bad : \A j \in bad : i <= j
    IN  IF bad = {} THEN ok(join(sep, [i \in 1..Len(rs) |-> rs[i].s]))
        ELSE IF rs[i0].err # "" THEN rs[i0]
        ELSE raise("TypeError")

\* '{} OP {}'.format(parse(left), parse(right))
parse_infix(left, op, right) ==
    LET rs == <<parse(left), parse(right)>>
    IN  IF failed(rs) THEN first_failed(rs)
        ELSE ok(rs[1].s \o op \o rs[2].s)

\* parse(_ast.Add) and parse(_ast.Sub) (147-184)
parse_AddSub(left, right, sign, setsep) ==
    LET rs == <<parse(left), parse(right)>>
        l == rs[1]
        r == rs[2]
    IN  IF failed(rs) THEN first_failed(rs)
        ELSE IF float(l) = "TypeError" THEN raise("TypeError")
        ELSE IF float(l) = "ok"
          THEN (IF float(r) = "ok" THEN ok(l.s \o sign \o r.s) ELSE raise("TypeError"))
        ELSE IF float(r) = "ValueError" THEN ok("(" \o l.s \o setsep \o r.s \o ")")
        ELSE raise("TypeError")

parse_op(op, left, right) ==
    CASE op = "Add" -> parse_AddSub(left, right, " + ", "; ")
      [] op = "Sub" -> parse_AddSub(left, right, " - ", "; - ")
      [] op = "Mult" -> parse_infix(left, " * ", right)
      [] op = "Div" -> parse_infix(left, " / ", right)
      [] op = "FloorDiv" -> raise("TypeError")
      [] op = "And" -> parse_infix(left, " && ", right)
      [] op = "Or" -> parse_infix(left, " || ", right)
      [] op = "Eq" -> parse_infix(left, " == ", right)
      [] op = "NotEq" -> parse_infix(left, " != ", right)
      [] op = "GtE" -> parse_infix(left, " >= ", right)
      [] op = "Gt" -> parse_infix(left, " > ", right)
      [] op = "LtE" -> parse_infix(left, " <= ", right)
      [] op = "Lt" -> parse_infix(left, " < ", right)
      [] OTHER -> None

parse_UnaryOp(operation) ==
    LET v == parse(operation.operand)
    IN  IF operation.op \notin {"USub", "Not"} THEN None
        ELSE IF v.err # "" THEN v
        ELSE ok((IF operation.op = "USub" THEN "-" ELSE "!") \o v.s)

\* parse(call.func)[1:]
call_name(call) ==
    LET f == parse(call.func)
    IN  IF f.err # "" THEN f
        ELSE IF f.ty # "str" THEN raise("TypeError")
        ELSE ok(From(f.s, 2))

_translate_object_call(call, name) ==
    LET set == before_dot(name)
        args == parse_all(call.args)
    IN  IF endswith(name, ".intersect")
          THEN LET j == join_parsed("", args)
               IN  IF j.err # "" THEN j ELSE ok(lower(replace(set, "Set", "")) \o j.s)
        ELSE IF endswith(name, ".filter")
          THEN (IF Len(args) = 0 THEN raise("IndexError")
                ELSE IF args[1].err # "" THEN args[1]
                ELSE IF args[1].ty # "str" THEN raise("TypeError")
                ELSE ok(lower(set) \o args[1].s))
        ELSE IF endswith(name, ".recurse_up") THEN ok("." \o set \o " <")
        ELSE IF endswith(name, ".recurse_down") THEN ok("." \o set \o " >")
        ELSE IF endswith(name, ".recurse_up_relations") THEN ok("." \o set \o " <<")
        ELSE IF endswith(name, ".recurse_down_relations") THEN ok("." \o set \o " >>")
        ELSE raise("NameError")

\* the tag filters of a locator: "".join(parse_tags(*parse(kwarg)) ...)
tags_of(call) ==
    LET vals == [i \in 1..Len(call.keywords) |-> parse(call.keywords[i].value)]
        one(i) == IF vals[i].err # "" THEN vals[i]
                  ELSE parse_tags(call.keywords[i].arg, vals[i])
    IN  join_parsed("", [i \in 1..Len(call.keywords) |-> one(i)])

_call_constructor(call, name) ==
    IF name = "Set"
      THEN LET j == join_parsed("; ", parse_all(call.args))
           IN  IF j.err # "" THEN j ELSE ok("(" \o j.s \o ")")
    ELSE LET overpasstype == lower(before_dot(name))
             tags == tags_of(call)
             arg == parse(call.args[1])
         IN  IF tags.err # "" THEN tags
             ELSE IF Len(call.args) = 1
               THEN (IF arg.err # "" THEN arg
                     ELSE IF arg.ty # "str" THEN raise("AttributeError")
                     ELSE IF startswith(arg.s, "around")
                       THEN ok(overpasstype \o tags.s \o "(around" \o From(arg.s, 7) \o ")")
                     ELSE IF isnumeric(arg.s)
                       THEN ok(overpasstype \o tags.s \o "(" \o arg.s \o ")")
                     ELSE ok(overpasstype \o tags.s \o "(area" \o arg.s \o ")"))
             ELSE IF Len(call.args) = 0 THEN ok(overpasstype \o tags.s)
             ELSE raise("IndexError")

\* the channels of out(...): the keyword names without repetition.  Python
\* joins a set, whose order is arbitrary when two channels remain; the model
\* keeps the order of the call, and inputs have at most one channel besides
\* count.
RECURSIVE channels(_)
channels(kws) ==
    IF kws = <<>> THEN <<>>
    ELSE LET rest == channels(SubSeq(kws, 1, Len(kws) - 1))
             c == kws[Len(kws)].arg
         IN  IF \E i \in 1..Len(rest) : rest[i] = c THEN rest ELSE Append(rest, c)

_call_out(call) ==
    LET element == IF Len(call.args) = 0 THEN ok("._") ELSE parse(call.args[1])
        vals == [i \in 1..Len(call.keywords) |-> parse(call.keywords[i].value)]
        all == channels(call.keywords)
        counted == \E i \in 1..Len(all) : all[i] = "count"
        others == SelectSeq(all, LAMBDA c : c # "count")
        ret == IF counted THEN element.s \o " out count;\n" ELSE ""
    IN  IF element.err # "" THEN element
        ELSE IF failed(vals) THEN first_failed(vals)
        ELSE IF element.ty # "str" THEN raise("TypeError")
        ELSE IF counted /\ others = <<>> THEN ok(ret)
        ELSE ok(ret \o element.s \o " out " \o join(" ", others) \o ";")

\* 'is_in({}, {})'.format(*call.args) renders the two nodes themselves, not
\* their translation: the class name stands for the object's repr
_call_is_in(call) ==
    LET num == Len(call.args)
        a == parse(call.args[1])
    IN  IF num = 0 THEN ok("is_in")
        ELSE IF num = 1
          THEN (IF a.err # "" THEN a
                ELSE IF a.ty # "str" THEN raise("TypeError")
                ELSE ok(a.s \o " is_in"))
        ELSE IF num = 2
          THEN ok("is_in(<_ast." \o call.args[1].kind \o ">, <_ast." \o call.args[2].kind \o ">)")
        ELSE raise("IndexError")

_call_around(call) ==
    LET args == parse_all(call.args)
        n == Len(call.args)
    IN  IF n = 1
          THEN (IF failed(args) THEN first_failed(args) ELSE ok("around:" \o args[1].s))
        ELSE IF n = 2
          THEN (IF failed(args) THEN first_failed(args)
                ELSE ok("around" \o args[1].s \o ":" \o args[2].s))
        ELSE IF n = 0 THEN raise("IndexError")
        ELSE IF failed(SubSeq(args, 1, 3)) THEN first_failed(SubSeq(args, 1, 3))
        ELSE ok("around:" \o args[1].s \o "," \o args[2].s \o "," \o args[3].s)

_translate_global_call(call, name) ==
    IF name = "out" THEN _call_out(call)
    ELSE IF name \in {"Set", "Way", "Node", "Area", "Relation"} THEN _call_constructor(call, name)
    ELSE IF name = "Regex"
      THEN (IF Len(call.args) = 0 THEN raise("IndexError")
            ELSE LET a == parse(call.args[1])
                 IN  IF a.err # "" THEN a ELSE ok("Regex(" \o a.s \o ")"))
    ELSE IF name = "is_in" THEN _call_is_in(call)
    ELSE IF name = "Around" THEN _call_around(call)
    ELSE raise("NameError")

parse_Call(call) ==
    LET name == call_name(call)
    IN  IF name.err # "" THEN name
        ELSE IF name.s = "noop" THEN ok("")
        ELSE IF contains(name.s, ".") THEN _translate_object_call(call, name.s)
        ELSE _translate_global_call(call, name.s)

parse_Assign(assignment) ==
    IF assignment.value.kind = "IfExp"
      THEN parse_IfExp(assignment.value, parse(assignment.targets[1]))
      ELSE LET rs == <<parse(assignment.value), parse(assignment.targets[1])>>
           IN  IF failed(rs) THEN first_failed(rs)
               ELSE ok("(" \o rs[1].s \o ";) -> " \o rs[2].s \o ";")

parse_For(forExp) ==
    LET collection == parse(forExp.iter)
        slot == parse(forExp.target)
        inner == join_parsed("\n", parse_all(forExp.body))
    IN  IF failed(<<collection, slot, inner>>) THEN first_failed(<<collection, slot, inner>>)
        ELSE ok("foreach" \o collection.s \o "->" \o slot.s \o "(" \o Indent \o inner.s \o ");")

parse_IfExp(ifExp, target) ==
    LET expr1 == parse(ifExp.body)
        expr2 == parse(ifExp.orelse)
        name == target
        condition == parse(ifExp.test)
        rs == <<expr1, expr2, name, condition>>
        filter(t, n, c) == t \o n \o "(if: " \o c \o ")"
        four(n, c) == filter("way", n, c) \o "; " \o filter("area", n, c) \o "; "
                        \o filter("node", n, c) \o "; " \o filter("relation", n, c) \o ";"
        head == "(" \o expr1.s \o ";) -> " \o name.s \o ";" \o Indent
        tmpname == "." \o TMP_PREFIX \o From(name.s, 2)
    IN  IF failed(rs) THEN first_failed(rs)
        ELSE IF expr2.ty = "str" /\ expr2.s = "()"
          THEN ok(head \o "(" \o four(name.s, condition.s) \o ") -> " \o name.s \o ";")
        ELSE IF expr2.ty = "str" /\ expr2.s \in {"way", "area", "node", "relation"}
          THEN ok(head \o filter(expr2.s, name.s, condition.s) \o " -> " \o name.s \o ";")
        ELSE ok(head \o "(" \o four(name.s, condition.s) \o ") -> " \o name.s \o ";" \o Indent
                \o "(" \o expr2.s \o ";) -> " \o tmpname \o ";" \o Indent
                \o "(" \o name.s \o "; "
                \o four(tmpname, "!(" \o condition.s \o ")") \o ") -> " \o name.s \o ";")

parse(node) ==
    CASE node.kind = "Assign" -> parse_Assign(node)
      [] node.kind = "Expr" -> parse(node.value)
      [] node.kind = "Name" -> ok("." \o node.id)
      [] node.kind \in {"BinOp", "BoolOp"} -> parse_op(node.op, node.left, node.right)
      [] node.kind = "UnaryOp" -> parse_UnaryOp(node)
      [] node.kind = "Compare" -> parse_op(node.ops[1], node.left, node.comparators[1])
      [] node.kind = "Call" -> parse_Call(node)
      [] node.kind = "Attribute" ->
            LET v == parse(node.value)
            IN  IF v.err # "" THEN v ELSE ok(v.s \o "." \o node.attr)
      [] node.kind = "Str" -> ok("\"" \o node.s \o "\"")
      [] node.kind = "Num" -> ok(ToString(node.n))
      [] node.kind = "IfExp" -> parse_IfExp(node, ok("._"))
      [] node.kind = "For" -> parse_For(node)
      [] node.kind = "Ellipsis" -> [err |-> "", ty |-> "Ellipsis", s |-> "Ellipsis"]
      [] node.kind = "NameConstant" ->
            IF node.value = "None" THEN None
            ELSE [err |-> "", ty |-> "bool", s |-> node.value]
      [] OTHER -> None

-----------------------------------------------------------------------------
(* The inputs: function bodies drawn from bounded families.                *)

Leaf == Expr(Call(Name("out"), <<Name("x")>>, <<>>))          \* out(x)

\* Control flow: lists of exactly n statements built from out(x), If, For,
\* Break and Continue, the last two only inside a loop.
RECURSIVE CtlStmts(_, _), CtlLists(_, _)

CtlStmts(n, inLoop) ==
    IF n = 1 THEN {Leaf} \cup (IF inLoop THEN {Break, Continue} ELSE {})
    ELSE UNION {
            {If(Name("c"), b, e) : b \in CtlLists(a, inLoop), e \in CtlLists(n - 1 - a, inLoop)}
            \cup
            {For(Name("x"), Name("s"), b, e) : b \in CtlLists(a, TRUE), e \in CtlLists(n - 1 - a, inLoop)}
         : a \in 1..(n - 1)}

CtlLists(n, inLoop) ==
    IF n = 0 THEN {<<>>}
    ELSE UNION {{<<st>> \o rest : st \in CtlStmts(a, inLoop), rest \in CtlLists(n - a, inLoop)}
                : a \in 1..n}

ControlInputs == UNION {CtlLists(n, FALSE) : n \in 1..MaxSize}

\* Expressions: chains of one-argument calls, two-argument calls, arithmetic.
Atoms == {Name("a"), Num(1)}
ChainAtoms == Atoms \cup {Str("Main")}
ChainFuncs == {"Way", "Around", "out"}

RECURSIVE Chains(_), Arith(_)

Chains(d) ==
    IF d = 0 THEN ChainAtoms
    ELSE ChainAtoms \cup {Call(Name(f), <<e>>, <<>>) : f \in ChainFuncs, e \in Chains(d - 1)}

TwoArgCalls ==
    {Call(Name("Set"), <<e1, e2>>, <<>>) : e1 \in Chains(MaxCallDepth - 2), e2 \in Chains(MaxCallDepth - 2)}

\* arithmetic with exactly n operators
Arith(n) ==
    IF n = 0 THEN Atoms
    ELSE UNION {{BinOp(l, op, r) : l \in Arith(a), op \in {"Add", "Sub"}, r \in Arith(n - 1 - a)}
                : a \in 0..(n - 1)}

\* Locators with tag filters
TagKeys == <<"highway", "name", "ref">>
TagValues == {Ellipsis, Str("Main"), NameConstant("None"),
              Call(Name("Regex"), <<Str("M")>>, <<>>), Call(Name("NotRegex"), <<Str("M")>>, <<>>)}
LocatorsWith(n) ==
    {Call(Name(t), args, [i \in 1..n |-> keyword(TagKeys[i], vals[i])]) :
        t \in {"Way", "Node"}, args \in {<<>>, <<Num(1)>>}, vals \in [1..n -> TagValues]}
Locators == UNION {LocatorsWith(n) : n \in 0..MaxKeywords}

Expressions ==
    Chains(MaxCallDepth) \cup TwoArgCalls \cup UNION {Arith(n) : n \in 0..MaxBinOps} \cup Locators

\* each expression as a statement, as an assigned value, as a loop iterator
\* and as a statement of a loop body
ExpressionInputs ==
    UNION {{<<Expr(e)>>, <<Assign(Name("x"), e)>>,
            <<For(Name("x"), e, <<Leaf>>, <<>>)>>,
            <<For(Name("x"), Name("s"), <<Expr(e)>>, <<>>)>>} : e \in Expressions}

\* a first statement the Settings test of parse(list) looks at
SettingsInputs ==
    {<<Expr(c), Leaf>> :
        c \in {Call(Name("Settings"), <<>>, <<keyword("timeout", Num(60))>>),
               Call(Name("Settings"), <<>>, <<keyword("out", Str("json"))>>),
               Call(Attribute(Name("s"), "recurse_down"), <<>>, <<>>)}}

\* an If whose test holds a call with a string argument, and a call whose
\* first argument is a call of two arguments
CopyInputs ==
    {<<If(Call(Name("is_in"), <<t>>, <<>>), <<Leaf>>, e)>> :
        t \in ChainAtoms, e \in {<<>>, <<Leaf>>}}
    \cup
    {<<Expr(Call(Name("out"), <<Call(Name("Set"), <<e1, e2>>, <<>>)>>, <<>>))>> :
        e1 \in ChainAtoms, e2 \in ChainAtoms}

Inputs == ControlInputs \cup ExpressionInputs \cup SettingsInputs \cup CopyInputs

\* an upper estimate of the randint calls a compilation of stmts makes
RECURSIVE Rewritable(_), RewritableIn(_)

RewritableIn(node) ==
    CASE node.kind = "If" -> 1 + Rewritable(node.body) + Rewritable(node.orelse)
      [] node.kind = "For" ->
            (IF scan_list(node.body, "Break") THEN 1 ELSE 0)
            + (IF scan_list(node.body, "Continue") THEN 1 ELSE 0)
            + (IF node.iter.kind # "Name" THEN 1 ELSE 0)
            + RewritableIn(node.iter) + Rewritable(node.body) + Rewritable(node.orelse)
      [] node.kind \in {"Expr", "Assign"} -> RewritableIn(node.value)
      [] node.kind = "Call" ->
            IF Len(node.args) > 0 /\ node.args[1].kind \notin {"Name", "Num"}
              THEN 1 + RewritableIn(node.args[1]) ELSE 0
      [] OTHER -> 0

Rewritable(stmts) ==
    IF stmts = <<>> THEN 0 ELSE RewritableIn(Head(stmts)) + Rewritable(Tail(stmts))

-----------------------------------------------------------------------------
(* The state machine: parse(list) (overpassify.py 90-104) calling          *)
(* transform (transform.py 27-39), one action per loop iteration.          *)

Init ==
    /\ input \in Inputs
    /\ rand \in {r \in [1..MaxDraws -> 0..MaxNonce] :
                    \A i \in 1..MaxDraws : i > Rewritable(input) => r[i] = 0}
    /\ pc = "start"
    /\ options = ""
    /\ body = input
    /\ k = 0
    /\ passes = 0
    /\ run = 1
    /\ first = [body |-> <<>>, k |-> 0]
    /\ result = None

\* the header lines of Settings(...): one '[key:value]\n' per keyword
RECURSIVE settings_options(_)
settings_options(kws) ==
    IF kws = <<>> THEN ok("")
    ELSE LET before == settings_options(SubSeq(kws, 1, Len(kws) - 1))
             kw == kws[Len(kws)]
             value == parse(kw.value)
         IN  IF before.err # "" THEN before
             ELSE IF value.err # "" THEN value
             ELSE IF value.ty # "str" THEN raise("TypeError")
             ELSE IF value.s = "" THEN raise("IndexError")
             ELSE IF At(value.s, 1) = "\""
               THEN ok(before.s \o "[" \o kw.arg \o ":" \o SubSeq(value.s, 2, Len(value.s) - 1) \o "]\n")
             ELSE ok(before.s \o "[" \o kw.arg \o ":" \o value.s \o "]\n")

\* parse(list) up to the call of transform: the Settings test
ParseList ==
    /\ pc = "start"
    /\ LET tree == input
           call == tree[1].value
           isCall == tree[1].kind = "Expr" /\ call.kind = "Call"
           isSettings == isCall /\ call.func.kind = "Name" /\ call.func.id = "Settings"
           opts == settings_options(call.keywords)
           exc == IF tree = <<>> THEN "IndexError"
                  ELSE IF isCall /\ call.func.kind # "Name" THEN "AttributeError"
                  ELSE IF isSettings THEN opts.err
                  ELSE ""
       IN  IF exc # ""
             THEN /\ pc' = "raised"
                  /\ result' = raise(exc)
                  /\ UNCHANGED <<options, body>>
             ELSE /\ pc' = "transform"
                  /\ options' = IF isSettings THEN opts.s ELSE ""
                  /\ body' = IF isSettings THEN Tail(tree) ELSE tree
                  /\ UNCHANGED result
    /\ UNCHANGED <<input, rand, k, passes, run, first>>

\* while changed:
while_once(changed) == FALSE
while_continues(changed) == changed

\* one iteration of the while loop of transform; the loop ends, and
\* transform returns body, when the pass reports no change
TransformPass ==
    /\ pc = "transform"
    /\ passes < MaxPasses
    /\ LET r == transform_list(body, k)
           again == while_continues(r.changed)
       IN  IF r.err # ""
             THEN /\ pc' = "aborted"
                  /\ result' = raise(r.err)
                  /\ UNCHANGED <<body, first>>
             ELSE /\ pc' = IF again THEN "transform" ELSE "returned"
                  /\ body' = r.add
                  /\ first' = IF run = 1 /\ ~again THEN [body |-> r.add, k |-> r.k] ELSE first
                  /\ UNCHANGED result
    /\ k' = transform_list(body, k).k
    /\ passes' = passes + 1
    /\ UNCHANGED <<input, rand, options, run>>

\* the rest of parse(list): options + '\n'.join(parse(expr) for expr in ...)
Emit ==
    /\ pc = "returned"
    /\ run = 1
    /\ LET text == join_parsed("\n", parse_all(body))
       IN  IF text.err # ""
             THEN pc' = "raised" /\ result' = text
             ELSE pc' = "emitted" /\ result' = ok(options \o text.s)
    /\ UNCHANGED <<input, rand, options, body, k, passes, run, first>>

\* transform called again on the list it returned
TransformAgain ==
    /\ pc = "returned"
    /\ run = 1
    /\ run' = 2
    /\ pc' = "transform"
    /\ passes' = 0
    /\ UNCHANGED <<input, rand, options, body, k, first, result>>

Next == ParseList \/ TransformPass \/ Emit \/ TransformAgain

Spec == Init /\ [][Next]_vars

-----------------------------------------------------------------------------
(* Properties of the desugaring pass.                                      *)

\* transform has returned to parse(list)
Desugared == pc = "returned" /\ run = 1

RECURSIVE Reach(_), ReachBodies(_), ArgsSimpleIn(_), Ids(_), IdsOf(_), IdsOutsideFlagLoops(_)

\* every statement of stmts and of the body and orelse lists below it
Reach(stmts) ==
    UNION {{stmts[i]} \cup (IF stmts[i].kind \in {"If", "For"}
                              THEN Reach(stmts[i].body) \cup Reach(stmts[i].orelse)
                              ELSE {})
           : i \in 1..Len(stmts)}

\* every statement of stmts and of the For bodies below it
ReachBodies(stmts) ==
    UNION {{stmts[i]} \cup (IF stmts[i].kind = "For" THEN ReachBodies(stmts[i].body) ELSE {})
           : i \in 1..Len(stmts)}

\* C1: the list desugar returns has no If, Break or Continue in any statement
\* list reachable from it (top level, For.body, For.orelse).
C1_NoControlFlowLeft ==
    Desugared => \A st \in Reach(body) : st.kind \notin {"If", "Break", "Continue"}

\* every positional argument of every Call in expression e is a Name or Num
ArgsSimpleIn(e) ==
    CASE e.kind = "Call" ->
            /\ \A i \in 1..Len(e.args) : e.args[i].kind \in {"Name", "Num"}
            /\ \A i \in 1..Len(e.keywords) : ArgsSimpleIn(e.keywords[i].value)
      [] e.kind = "BinOp" -> ArgsSimpleIn(e.left) /\ ArgsSimpleIn(e.right)
      [] e.kind = "IfExp" -> ArgsSimpleIn(e.test) /\ ArgsSimpleIn(e.body) /\ ArgsSimpleIn(e.orelse)
      [] e.kind = "UnaryOp" -> ArgsSimpleIn(e.operand)
      [] e.kind = "Attribute" -> ArgsSimpleIn(e.value)
      [] OTHER -> TRUE

\* the expression a statement evaluates first
ExprOf(st) ==
    CASE st.kind \in {"Expr", "Assign"} -> st.value
      [] st.kind = "For" -> st.iter
      [] st.kind = "If" -> st.test
      [] OTHER -> st

\* C2 as stated: in the list desugar returns every For iterates over a Name
\* and every positional argument of every Call, in any position and at any
\* nesting, is a Name or a Num.
C2_AllArgsSimple ==
    Desugared => \A st \in Reach(body) :
                    /\ st.kind = "For" => st.iter.kind = "Name"
                    /\ ArgsSimpleIn(ExprOf(st))

\* the Call a statement consists of: a bare Call, or the value of an Expr or
\* of an Assign
IsCallStmt(st) ==
    \/ st.kind = "Call"
    \/ st.kind \in {"Expr", "Assign"} /\ st.value.kind = "Call"
CallOf(st) == IF st.kind = "Call" THEN st ELSE st.value

\* C2 amended: in the list desugar returns, every For of the list and of the
\* For bodies below it iterates over a Name, and the first positional
\* argument of every Call that is a statement, or the value of an Expr or
\* Assign statement, of these lists is a Name or a Num.
C2_FirstArgSimple ==
    Desugared => \A st \in ReachBodies(body) :
                    /\ st.kind = "For" => st.iter.kind = "Name"
                    /\ IsCallStmt(st) /\ Len(CallOf(st).args) > 0
                          => CallOf(st).args[1].kind \in {"Name", "Num"}

\* an iterator and a call argument were hoisted
C2_Witness ==
    /\ Desugared
    /\ \E st \in ReachBodies(body) :
          st.kind = "Assign" /\ startswith(st.targets[1].id, "tmpfor")
    /\ \E st \in ReachBodies(body) :
          st.kind = "Assign" /\ startswith(st.targets[1].id, "tmpcall")

\* C3: on every input built from Assign, Expr, If, For, Break and Continue
\* transform terminates and returns: no rewrite step raises and the while
\* loop ends.
C3_TransformReturns ==
    /\ pc # "aborted"
    /\ pc = "transform" => passes < MaxPasses

\* C4: transform is idempotent: called on the list it returned, it ends
\* after one pass that reports no change, returns the same list, and draws
\* no fresh name.
C4_Idempotent ==
    run = 2 =>
        /\ pc \in {"transform", "returned"}
        /\ body = first.body
        /\ k = first.k
        /\ passes = (IF pc = "returned" THEN 1 ELSE 0)

\* the second call returned after a first call that rewrote its input
C4_Witness ==
    run = 2 /\ pc = "returned" /\ first.body # input /\ first.k >= 2

\* the identifiers of a node: every Name outside the func of a Call
IdsOf(e) ==
    CASE e.kind = "Name" -> {e.id}
      [] e.kind = "Call" ->
            UNION {IdsOf(e.args[i]) : i \in 1..Len(e.args)}
            \cup UNION {IdsOf(e.keywords[i].value) : i \in 1..Len(e.keywords)}
      [] e.kind = "BinOp" -> IdsOf(e.left) \cup IdsOf(e.right)
      [] e.kind = "IfExp" -> IdsOf(e.test) \cup IdsOf(e.body) \cup IdsOf(e.orelse)
      [] e.kind = "UnaryOp" -> IdsOf(e.operand)
      [] e.kind = "Attribute" -> IdsOf(e.value)
      [] e.kind = "Expr" -> IdsOf(e.value)
      [] e.kind = "Assign" -> IdsOf(e.targets[1]) \cup IdsOf(e.value)
      [] e.kind = "If" -> IdsOf(e.test) \cup Ids(e.body) \cup Ids(e.orelse)
      [] e.kind = "For" -> IdsOf(e.target) \cup IdsOf(e.iter) \cup Ids(e.body) \cup Ids(e.orelse)
      [] OTHER -> {}

Ids(stmts) == UNION {IdsOf(stmts[i]) : i \in 1..Len(stmts)}

\* a For over a break or continue flag with loop target `_`
IsFlagLoop(st) ==
    /\ st.kind = "For"
    /\ st.target = Name("_")
    /\ st.iter.kind = "Name"
    /\ startswith(st.iter.id, "tmpbreak") \/ startswith(st.iter.id, "tmpcontinue")

\* the identifiers of stmts, leaving out the loop target of flag loops
IdsOutsideFlagLoops(stmts) ==
    UNION {LET st == stmts[i]
           IN  IF st.kind = "For"
                 THEN (IF IsFlagLoop(st) THEN {} ELSE IdsOf(st.target))
                      \cup IdsOf(st.iter)
                      \cup IdsOutsideFlagLoops(st.body) \cup IdsOutsideFlagLoops(st.orelse)
               ELSE IF st.kind = "If"
                 THEN IdsOf(st.test)
                      \cup IdsOutsideFlagLoops(st.body) \cup IdsOutsideFlagLoops(st.orelse)
               ELSE IdsOf(st)
           : i \in 1..Len(stmts)}

\* C5 as stated: every identifier desugaring introduces, the loop targets of
\* the For wrappers of If, Break and Continue lowering included, begins with
\* the reserved prefix.
C5_AllIntroducedTmp ==
    Desugared => \A id \in Ids(body) \ Ids(input) : startswith(id, TMP_PREFIX)

\* C5 amended: every identifier desugaring introduces begins with the
\* reserved prefix, except the loop target of the For wrappers of Break and
\* Continue lowering, which is `_`.
C5_IntroducedTmpOrFlagTarget ==
    Desugared => \A id \in IdsOutsideFlagLoops(body) \ Ids(input) : startswith(id, TMP_PREFIX)

\* an If and a Break or Continue were lowered
C5_Witness ==
    /\ Desugared
    /\ \E st \in Reach(body) : IsFlagLoop(st)
    /\ \E st \in Reach(body) : st.kind = "For" /\ st.target = Name("tmp_")
    /\ \E id \in Ids(body) \ Ids(input) : startswith(id, "tmpif")

-----------------------------------------------------------------------------
(* Properties of the compilation as a whole.                               *)

\* parse(list) has returned or raised
Compiled == pc \in {"emitted", "raised", "aborted"}

RECURSIVE IsScalarExpr(_), IsSetExpr(_), Holds(_, _)

\* a numeric expression: a number, or arithmetic on numeric expressions
IsScalarExpr(e) ==
    CASE e.kind = "Num" -> TRUE
      [] e.kind = "BinOp" ->
            e.op \in {"Add", "Sub", "Mult", "Div"} /\ IsScalarExpr(e.left) /\ IsScalarExpr(e.right)
      [] e.kind = "UnaryOp" -> e.op = "USub" /\ IsScalarExpr(e.operand)
      [] OTHER -> FALSE

\* a set expression: a named set, a call, or a union or difference of sets
IsSetExpr(e) ==
    CASE e.kind \in {"Name", "Call"} -> TRUE
      [] e.kind = "BinOp" -> e.op \in {"Add", "Sub"} /\ IsSetExpr(e.left) /\ IsSetExpr(e.right)
      [] OTHER -> FALSE

\* Add or Sub of exactly one numeric and one set operand
IsMixed(e) ==
    /\ e.kind = "BinOp"
    /\ e.op \in {"Add", "Sub"}
    /\ \/ IsScalarExpr(e.left) /\ IsSetExpr(e.right)
       \/ IsSetExpr(e.left) /\ IsScalarExpr(e.right)

\* C6: compiling an Add or Sub of one numeric and one set operand raises
\* TypeError and returns no text, whatever the shape of the numeric operand.
C6_MixedRaisesTypeError ==
    (/\ Compiled
     /\ Len(input) = 1
     /\ input[1].kind \in {"Expr", "Assign"}
     /\ IsMixed(input[1].value))
        => pc = "raised" /\ result.err = "TypeError"

\* the truth of a test when the condition it names has truth value b
Holds(test, b) ==
    IF test.kind = "UnaryOp" /\ test.op = "Not" THEN ~Holds(test.operand, b) ELSE b

\* the flag assigned by `flag = flagr if test else Set()` is non-empty
FlagLive(assign, b) == Holds(assign.value.test, b)

\* C7: the first pass lowers an If with an else branch to five statements,
\* the fourth assigning the flag under the negation of the test, so that for
\* either truth value of the test exactly one of the two loops runs.
C7_ElseTestNegated ==
    (/\ run = 1 /\ passes = 1 /\ pc \in {"transform", "returned"}
     /\ Len(input) = 1
     /\ input[1].kind = "If"
     /\ input[1].orelse # <<>>)
        => /\ Len(body) = 5
           /\ body[3].kind = "For" /\ body[3].body = input[1].body
           /\ body[5].kind = "For" /\ body[5].body = input[1].orelse
           /\ body[4].kind = "Assign" /\ body[4].value.kind = "IfExp"
           /\ body[4].value.test = UnaryOp("Not", input[1].test)
           /\ \A b \in BOOLEAN : FlagLive(body[2], b) # FlagLive(body[4], b)

\* C8: an expression statement calling f with a first argument that is
\* neither Name nor Num ends, in the list desugar returns, as assignments
\* followed by the call of f on the tmpcall name assigned last.
C8_CallKeptAfterHoist ==
    (/\ Desugared
     /\ Len(input) = 1
     /\ input[1].kind = "Expr"
     /\ input[1].value.kind = "Call"
     /\ Len(input[1].value.args) > 0
     /\ input[1].value.args[1].kind \notin {"Name", "Num"})
        => LET n == Len(body)
           IN  /\ n >= 2
               /\ \A i \in 1..(n - 1) : body[i].kind = "Assign"
               /\ startswith(body[n - 1].targets[1].id, "tmpcall")
               /\ body[n].kind \in {"Expr", "Call"}
               /\ IsCallStmt(body[n])
               /\ CallOf(body[n]).func = input[1].value.func
               /\ CallOf(body[n]).args[1] = body[n - 1].targets[1]

\* C9: compiling a For that has an else clause and no Break in its body
\* returns no text.
C9_ForElseRejected ==
    (\E i \in 1..Len(input) :
        /\ input[i].kind = "For"
        /\ input[i].orelse # <<>>
        /\ ~scan_list(input[i].body, "Break"))
        => pc # "emitted"

\* the tag filter the keyword of a locator stands for
TagFilter(kw) ==
    IF kw.value.kind = "Ellipsis" THEN "[\"" \o kw.arg \o "\"]"
    ELSE "[\"" \o kw.arg \o "\"=\"" \o kw.value.s \o "\"]"

\* C10: `x = T(key=..., key="s")`, the keyword values being Ellipsis or
\* string literals, compiles to `(t["key"]["key"="s"];) -> .x;`, each string
\* value in one pair of double quotes.
C10_StringTagQuotedOnce ==
    (/\ Compiled
     /\ Len(input) = 1
     /\ input[1].kind = "Assign"
     /\ input[1].value.kind = "Call"
     /\ input[1].value.func \in {Name("Way"), Name("Node"), Name("Area"), Name("Relation")}
     /\ input[1].value.args = <<>>
     /\ \A i \in 1..Len(input[1].value.keywords) :
            input[1].value.keywords[i].value.kind \in {"Ellipsis", "Str"}
     /\ \E i \in 1..Len(input[1].value.keywords) :
            input[1].value.keywords[i].value.kind = "Str")
        => /\ pc = "emitted"
           /\ result.s = "(" \o lower(input[1].value.func.id)
                         \o join("", [i \in 1..Len(input[1].value.keywords) |->
                                        TagFilter(input[1].value.keywords[i])])
                         \o ";) -> " \o "." \o input[1].targets[1].id \o ";"

-----------------------------------------------------------------------------
(* Properties of the emitter, continued.                                   *)

\* the tag filter a keyword with value NotRegex(x), or Ellipsis, stands for
NegTagFilter(kw) ==
    IF kw.value.kind = "Ellipsis" THEN "[\"" \o kw.arg \o "\"]"
    ELSE "[\"" \o kw.arg \o "\"!~" \o parse(kw.value.args[1]).s \o "]"

\* the input is `x = T(key=v, ...)` without positional arguments, every v a
\* node for which is(v) holds
IsLocatorAssign(is(_)) ==
    /\ Len(input) = 1
    /\ input[1].kind = "Assign"
    /\ input[1].value.kind = "Call"
    /\ input[1].value.func \in {Name("Way"), Name("Node"), Name("Area"), Name("Relation")}
    /\ input[1].value.args = <<>>
    /\ \A i \in 1..Len(input[1].value.keywords) : is(input[1].value.keywords[i].value)

IsNotRegex(v) == v.kind = "Call" /\ v.func = Name("NotRegex") /\ Len(v.args) = 1

\* C11: `x = T(key=NotRegex(x), ...)`, the keyword values being NotRegex
\* calls or Ellipsis, compiles to text in which each NotRegex keyword is the
\* tag filter ["key"!~x]; no NameError is raised.
C11_NotRegexEmitted ==
    (/\ Compiled
     /\ IsLocatorAssign(LAMBDA v : v.kind = "Ellipsis" \/ IsNotRegex(v))
     /\ \E i \in 1..Len(input[1].value.keywords) : IsNotRegex(input[1].value.keywords[i].value))
        => /\ pc = "emitted"
           /\ result.s = "(" \o lower(input[1].value.func.id)
                         \o join("", [i \in 1..Len(input[1].value.keywords) |->
                                        NegTagFilter(input[1].value.keywords[i])])
                         \o ";) -> " \o "." \o input[1].targets[1].id \o ";"

-----------------------------------------------------------------------------
(* The meaning of a statement list: Python's for, if, break and continue   *)
(* over the sets of the reference model (model.py).  A set is a set of map *)
(* objects [type, id]; an environment is the set of pairs <<name, object>> *)
(* with the object in the set of that name.                                *)

MaxElems == 2       \* objects in the set `s` the input loops iterate over

\* BlackBox.getByID(ID) filtered by Relation.filter: the relation of that id
RelationOf(id) == {[type |-> "relation", id |-> id]}

\* Way.filter(some_set), Node.filter, Area.filter, Relation.filter: the items
\* of the set that are of the type
TypeFilter(type, some_set) == {item \in some_set : item.type = lower(type)}

\* the objects a program can meet, in iteration order
Universe == [i \in 1..(MaxElems + 1) |->
                IF i <= MaxElems THEN [type |-> "way", id |-> i]
                ELSE [type |-> "relation", id |-> DummyRelation]]

Value(env, name) == {p[2] : p \in {q \in env : q[1] = name}}
Bind(env, name, v) == {q \in env : q[1] # name} \cup {<<name, o>> : o \in v}

\* Set.__iter__: the items of a set, one after the other
Items(v) == SelectSeq(Universe, LAMBDA o : o \in v)

\* the environment a program starts in: `s` holds n ways
Env0(n) == {<<"s", Universe[i]>> : i \in 1..n}

\* the truth of a test, c being the truth of the name `c`
RECURSIVE Truth(_, _)
Truth(test, c) ==
    IF test.kind = "UnaryOp" /\ test.op = "Not" THEN ~Truth(test.operand, c)
    ELSE c

\* the set an expression evaluates to
RECURSIVE Eval(_, _, _)
Eval(e, env, c) ==
    CASE e.kind = "Name" -> Value(env, e.id)
      [] e.kind = "IfExp" ->
            IF Truth(e.test, c) THEN Eval(e.body, env, c) ELSE Eval(e.orelse, env, c)
      [] e.kind = "Call" /\ e.func = Name("Relation") /\ Len(e.args) = 1
            /\ e.args[1].kind = "Num" -> RelationOf(e.args[1].n)
      [] e.kind = "Call" /\ e.func \in {Attribute(Name(T), "filter") : T \in {"Way", "Node", "Area", "Relation"}}
            /\ Len(e.args) = 1 ->
            TypeFilter(e.func.value.id, Eval(e.args[1], env, c))
      [] OTHER -> {}

\* A run is [env, sig, log]: the environment, the pending "break" or
\* "continue" ("" when none), and the assignments and calls executed so far,
\* each with the object `x` was bound to.
Run0(n) == [env |-> Env0(n), sig |-> "", log |-> <<>>]

Event(st, env) == [st |-> st, x |-> Value(env, "x")]

RECURSIVE Exec(_, _, _), ExecStmt(_, _, _), ExecFor(_, _, _, _)

\* for target in items: body, else: orelse
ExecFor(f, items, r, c) ==
    IF items = <<>>
      THEN Exec(f.orelse, r, c)
    ELSE LET bound == [r EXCEPT !.env = Bind(r.env, f.target.id, {Head(items)})]
             after == Exec(f.body, bound, c)
         IN  IF after.sig = "break" THEN [after EXCEPT !.sig = ""]
             ELSE ExecFor(f, Tail(items), [after EXCEPT !.sig = ""], c)

ExecStmt(st, r, c) ==
    CASE st.kind = "Assign" ->
            [r EXCEPT !.env = Bind(r.env, st.targets[1].id, Eval(st.value, r.env, c)),
                      !.log = Append(r.log, Event(st, r.env))]
      [] st.kind \in {"Expr", "Call"} -> [r EXCEPT !.log = Append(r.log, Event(st, r.env))]
      [] st.kind = "If" -> IF Truth(st.test, c) THEN Exec(st.body, r, c) ELSE Exec(st.orelse, r, c)
      [] st.kind = "For" -> ExecFor(st, Items(Eval(st.iter, r.env, c)), r, c)
      [] st.kind = "Break" -> [r EXCEPT !.sig = "break"]
      [] st.kind = "Continue" -> [r EXCEPT !.sig = "continue"]
      [] OTHER -> r

Exec(stmts, r, c) ==
    IF stmts = <<>> \/ r.sig # "" THEN r
    ELSE Exec(Tail(stmts), ExecStmt(Head(stmts), r, c), c)

\* the calls of a run: the object `x` was bound to at each executed call
Calls(r) == SelectSeq(r.log, LAMBDA e : e.st.kind \in {"Expr", "Call"})

-----------------------------------------------------------------------------
(* Properties of the lowered program.                                      *)

\* the statements j..j+4 of stmts are the lowering of a For with a Break and
\* an else clause: the flag, the loop, the else flag, its gate, the else loop
IsBreakElseAt(stmts, j) ==
    /\ j + 4 <= Len(stmts)
    /\ stmts[j].kind = "Assign"
    /\ startswith(stmts[j].targets[1].id, "tmpbreak")
    /\ stmts[j] = AssignRelation(stmts[j].targets[1].id)
    /\ stmts[j + 1].kind = "For"
    /\ stmts[j + 2] = AssignRelation(stmts[j].targets[1].id \o "else")
    /\ stmts[j + 3].kind = "For"
    /\ stmts[j + 4].kind = "For"
    /\ stmts[j + 4].iter = Name(stmts[j].targets[1].id \o "else")

\* the set of name `name` is not empty after the first j statements
LiveAfter(stmts, j, name, n, c) ==
    Value(Exec(SubSeq(stmts, 1, j), Run0(n), c).env, name) # {}

\* C12: in the lowered program of a For with a Break and an else clause, the
\* else statements run exactly when the break flag is still non-empty after
\* the loop.
C12_ElseRunsIffNoBreak ==
    Desugared =>
        \A j \in 1..Len(body) :
            IsBreakElseAt(body, j) =>
                \A n \in 0..MaxElems, c \in BOOLEAN :
                    LiveAfter(body, j + 1, body[j].targets[1].id, n, c)
                        <=> LiveAfter(body, j + 3, body[j + 4].iter.id, n, c)

\* the loop body the lowering of Break stands for: every statement in a For
\* over the flag, a Break as the assignment that extinguishes the flag, an If
\* with both of its branches lowered the same way
RECURSIVE BreakLowered(_, _)
BreakLowered(stmts, flag) ==
    [i \in 1..Len(stmts) |->
        LET st == stmts[i]
            lowered == IF st.kind = "Break" THEN AssignFilter(flag, flag)
                       ELSE IF st.kind = "If"
                         THEN [st EXCEPT !.body = BreakLowered(st.body, flag),
                                         !.orelse = BreakLowered(st.orelse, flag)]
                       ELSE st
        IN  [ForOver("_", flag) EXCEPT !.body = <<lowered>>]]

\* C13: transform_break on a For replaces every Break of the body, in either
\* branch of an If at any depth, by the extinguishing assignment and keeps
\* every other statement of both branches, each in a For over the flag.
C13_BreakKeepsBothBranches ==
    pc = "transform" =>
        \A st \in ReachBodies(body) :
            (st.kind = "For" /\ scan_list(st.body, "Break")) =>
                LET r == transform_break(st, "", k)
                IN  /\ r.err = ""
                    /\ r.body[2].body = BreakLowered(st.body, r.body[1].targets[1].id)


\* the run at the start of the m-th iteration of the loop f, the set it
\* iterates over holding n objects: the target bound, the earlier
\* iterations done
RECURSIVE IterStart(_, _, _, _)
IterStart(f, n, c, m) ==
    LET before == IF m = 1 THEN [Run0(n) EXCEPT !.env = Bind(@, f.iter.id, Value(@, "s"))]
                  ELSE Exec(f.body, IterStart(f, n, c, m - 1), c)
    IN  [before EXCEPT !.env = Bind(before.env, f.target.id, {Universe[m]})]

\* the run of the m-th iteration before the j-th statement of the body
IterBefore(f, n, c, m, j) == Exec(SubSeq(f.body, 1, j - 1), IterStart(f, n, c, m), c)

\* the loop transform_continue returns for st
ContinueLowered(st) == transform_continue(st, "", k)

\* the For st is one transform_continue lowers, and it returns
IsContinueLowered(st) ==
    /\ st.kind = "For"
    /\ st.iter.kind = "Name"
    /\ ~scan_list(st.body, "Break")
    /\ scan_list(st.body, "Continue")
    /\ ContinueLowered(st).err = ""

\* the shape of the lowered loop
ContinueShape(st, r) ==
    /\ Len(r) = 1
    /\ r[1].kind = "For"
    /\ Len(r[1].body) = Len(st.body) + 1
    /\ r[1].body[1].kind = "Assign"
    /\ LET flag == r[1].body[1].targets[1].id
       IN  /\ startswith(flag, "tmpcontinue")
           /\ r[1].body[1] = AssignRelation(flag)
           /\ \A i \in 1..Len(st.body) :
                r[1].body[i + 1] =
                    [ForOver("_", flag) EXCEPT !.body =
                        <<IF st.body[i].kind = "Continue" THEN AssignFilter(flag, flag)
                          ELSE st.body[i]>>]
           /\ r[1] = [st EXCEPT !.body = r[1].body]

\* the behaviour of the lowered loop f in its m-th iteration
ContinueSkipsRest(f, n, c, m) ==
    LET flag == f.body[1].targets[1].id
        live(j) == Value(IterBefore(f, n, c, m, j).env, flag) # {}
    IN  /\ live(2)
        /\ \A i \in 2..Len(f.body) :
              (f.body[i].body = <<AssignFilter(flag, flag)>> /\ live(i)) =>
                 /\ \A j \in (i + 1)..(Len(f.body) + 1) : ~live(j)
                 /\ Calls(IterBefore(f, n, c, m, Len(f.body) + 1))
                        = Calls(IterBefore(f, n, c, m, i))

\* C14: the loop transform_continue returns has the assignment of the flag
\* as the first statement of its body, every Continue replaced by the
\* assignment that extinguishes the flag, and every statement of the body in
\* a For over the flag; in every iteration the flag is live after the first
\* statement, and once a replaced Continue has executed no later statement
\* of the body runs in that iteration.
C14_ContinueLowering ==
    pc = "transform" =>
        \A st \in ReachBodies(body) :
            IsContinueLowered(st) =>
                /\ ContinueShape(st, ContinueLowered(st).body)
                /\ \A n \in 1..MaxElems, c \in BOOLEAN : \A m \in 1..n :
                      ContinueSkipsRest(ContinueLowered(st).body[1], n, c, m)

\* a loop with a statement before and after its Continue is being lowered
C14_Witness ==
    /\ pc = "transform"
    /\ \E st \in ReachBodies(body) :
          /\ IsContinueLowered(st)
          /\ Len(st.body) = 3
          /\ st.body[1] = Leaf /\ st.body[2] = Continue /\ st.body[3] = Leaf


\* C15: every For of the list desugar returns, at any depth, has an empty
\* orelse.
C15_ForOrelseEmpty ==
    Desugared => \A st \in Reach(body) : st.kind = "For" => st.orelse = <<>>


-----------------------------------------------------------------------------
(* Termination of the desugaring pass.                                     *)

\* the measure of a node: the If nodes, the Break and Continue nodes, the
\* positional arguments of Calls that are not a Name or a Num, and the For
\* nodes whose iterator is not a Name, in the node and below it
RECURSIVE Measure(_), MeasureOf(_)

MeasureOf(node) ==
    CASE node.kind = "If" ->
            1 + MeasureOf(node.test) + Measure(node.body) + Measure(node.orelse)
      [] node.kind = "For" ->
            (IF node.iter.kind # "Name" THEN 1 ELSE 0)
            + MeasureOf(node.iter) + Measure(node.body) + Measure(node.orelse)
      [] node.kind \in {"Break", "Continue"} -> 1
      [] node.kind \in {"Expr", "Assign", "Attribute", "keyword"} -> MeasureOf(node.value)
      [] node.kind = "Call" ->
            Cardinality({i \in 1..Len(node.args) : node.args[i].kind \notin {"Name", "Num"}})
            + Measure(node.args) + Measure(node.keywords)
      [] node.kind = "BinOp" -> MeasureOf(node.left) + MeasureOf(node.right)
      [] node.kind = "Compare" -> MeasureOf(node.left) + Measure(node.comparators)
      [] node.kind = "UnaryOp" -> MeasureOf(node.operand)
      [] node.kind = "IfExp" ->
            MeasureOf(node.test) + MeasureOf(node.body) + MeasureOf(node.orelse)
      [] OTHER -> 0

\* the measure of a list of nodes
Measure(nodes) ==
    IF nodes = <<>> THEN 0 ELSE MeasureOf(Head(nodes)) + Measure(Tail(nodes))

\* C16: every rewrite strictly decreases the measure of the statement list.
\* Each rewrite (an If, Break or Continue lowering, an iterator or argument
\* hoisting) draws exactly one nonce, so a pass that made k' - k rewrites
\* decreases the measure by at least k' - k.
C16_EveryRewriteDecreases ==
    [][(pc = "transform" /\ pc' \in {"transform", "returned"})
          => Measure(body') + (k' - k) <= Measure(body)]_vars


\* the calls a hoisting of first arguments leaves behind as statements: call
\* is the first argument of a call whose first argument is being hoisted
RECURSIVE CopiedCalls(_)
CopiedCalls(call) ==
    IF call.kind = "Call" /\ call.args # <<>> /\ call.args[1].kind \notin {"Name", "Num"}
      THEN {[call EXCEPT !.args[1] = Name("_")]} \cup CopiedCalls(call.args[1])
      ELSE {}

\* no rewrite of a pass over stmts copies a counted node: the test of every
\* If with an else clause, and every call which the hoisting of first
\* arguments leaves behind, have measure 0
NoCountedCopy(stmts) ==
    \A st \in ReachBodies(stmts) :
        /\ (st.kind = "If" /\ st.orelse # <<>>) => MeasureOf(st.test) = 0
        /\ IsCallStmt(st) /\ CallOf(st).args # <<>> =>
              \A copy \in CopiedCalls(CallOf(st).args[1]) : MeasureOf(copy) = 0

\* C16 amended: every rewrite strictly decreases the measure unless it
\* copies a counted node (the test of an If with an else clause, copied into
\* both flag assignments; the inner call left behind as a statement when the
\* first argument of a first argument is hoisted).
C16_RewriteDecreasesUnlessCopy ==
    [][(pc = "transform" /\ pc' \in {"transform", "returned"} /\ NoCountedCopy(body))
          => Measure(body') + (k' - k) <= Measure(body)]_vars

\* a list of measure 2 or more was brought to measure 0 by as many rewrites
C16_Witness ==
    /\ Desugared
    /\ NoCountedCopy(input)
    /\ Measure(input) >= 2
    /\ k = Measure(input)
    /\ Measure(body) = 0


-----------------------------------------------------------------------------
(* Fresh names.                                                            *)

\* st is the statement a rewrite introduces its fresh name with: the
\* assignment of the singleton to tmpifNr, tmpbreakN or tmpcontinueN, of the
\* iterator to tmpforN, of the argument to tmpcallN
IntroducesName(st) ==
    /\ st.kind = "Assign"
    /\ LET id == st.targets[1].id
       IN  \/ startswith(id, "tmpfor")
           \/ startswith(id, "tmpcall")
           \/ /\ st = AssignRelation(id)
              /\ \/ startswith(id, "tmpif") /\ endswith(id, "r")
                 \/ startswith(id, "tmpbreak") /\ ~endswith(id, "else")
                 \/ startswith(id, "tmpcontinue")

\* the names the statements of stmts, at any depth, introduce, one entry for
\* every introducing statement
RECURSIVE FreshNames(_)
FreshNames(stmts) ==
    IF stmts = <<>> THEN <<>>
    ELSE LET st == Head(stmts)
             here == IF IntroducesName(st) THEN <<st.targets[1].id>>
                     ELSE IF st.kind \in {"If", "For"}
                       THEN FreshNames(st.body) \o FreshNames(st.orelse)
                     ELSE <<>>
         IN  here \o FreshNames(Tail(stmts))

\* C17: the fresh names of one compilation are pairwise distinct: no two
\* rewrites introduce the same identifier.
C17_FreshNamesDistinct ==
    pc \in {"transform", "returned"} =>
        LET names == FreshNames(body)
        IN  \A i, j \in 1..Len(names) : i # j => names[i] # names[j]


-----------------------------------------------------------------------------
(* Break and Continue in one loop.                                         *)

\* the input is one For over `s` with a Break and a Continue directly in its
\* body, the other statements of the body being calls
IsBreakContinueLoop ==
    /\ Len(input) = 1
    /\ input[1].kind = "For"
    /\ input[1].iter = Name("s")
    /\ \A i \in 1..Len(input[1].body) : input[1].body[i].kind \in {"Break", "Continue", "Expr"}
    /\ \E i \in 1..Len(input[1].body) : input[1].body[i].kind = "Break"
    /\ \E i \in 1..Len(input[1].body) : input[1].body[i].kind = "Continue"

\* the event is the execution of the assignment that extinguishes a flag
\* whose name starts with prefix
IsExtinguish(e, prefix) ==
    /\ e.st.kind = "Assign"
    /\ startswith(e.st.targets[1].id, prefix)
    /\ e.st = AssignFilter(e.st.targets[1].id, e.st.targets[1].id)

\* the event is the execution of a statement of the input loop's body: a
\* call, or the replacement of the Break
IsBodyStatement(e) == e.st.kind \in {"Expr", "Call"} \/ IsExtinguish(e, "tmpbreak")

\* C18: in the lowered program of a For with a Break and a Continue directly
\* in its body, once the replacement of the Continue has executed in an
\* iteration, no statement of the body executes in that iteration.
C18_ContinueSkipsRestWithBreak ==
    (Desugared /\ IsBreakContinueLoop) =>
        \A n \in 1..MaxElems :
            LET log == Exec(body, Run0(n), TRUE).log
            IN  \A p, q \in 1..Len(log) :
                    (p < q /\ IsExtinguish(log[p], "tmpcontinue") /\ log[q].x = log[p].x)
                        => ~IsBodyStatement(log[q])


-----------------------------------------------------------------------------
(* The around locator.                                                     *)

\* the input is `x = T(Around(...))`, T a locator without keywords
IsAroundLocator ==
    /\ Len(input) = 1
    /\ input[1].kind = "Assign"
    /\ input[1].value.kind = "Call"
    /\ input[1].value.func \in {Name("Way"), Name("Node"), Name("Area"), Name("Relation")}
    /\ input[1].value.keywords = <<>>
    /\ Len(input[1].value.args) = 1
    /\ input[1].value.args[1].kind = "Call"
    /\ input[1].value.args[1].func = Name("Around")
    /\ Len(input[1].value.args[1].args) = 1
    /\ input[1].value.args[1].args[1].kind \in {"Name", "Num"}

\* C19: `x = T(Around(r))` compiles to the around form of the locator,
\* `(t(around:r);) -> .x;`.
C19_AroundLocatorEmitted ==
    (Compiled /\ IsAroundLocator) =>
        /\ pc = "emitted"
        /\ result.s = "(" \o lower(input[1].value.func.id)
                      \o "(around:" \o parse(input[1].value.args[1].args[1]).s \o ")"
                      \o ";) -> ." \o input[1].targets[1].id \o ";"


-----------------------------------------------------------------------------
(* The Settings header.                                                    *)

\* the first statement of the input is an expression-statement call of
\* something other than the bare name Settings
FirstIsOtherCall ==
    /\ input # <<>>
    /\ input[1].kind = "Expr"
    /\ input[1].value.kind = "Call"
    /\ input[1].value.func # Name("Settings")

\* C20: when the first statement is an expression-statement call of anything
\* but the bare name Settings, a dotted name included, the header check
\* raises nothing, emits no header line and removes no statement.
C20_OtherFirstCallKept ==
    (FirstIsOtherCall /\ pc # "start") =>
        /\ ~(pc = "raised" /\ passes = 0)
        /\ options = ""
        /\ (pc = "transform" /\ passes = 0 /\ run = 1) => body = input

=============================================================================
